---- MODULE Spec2Model ----
(***************************************************************************)
(* Model of agent.py: the three filesystem tool handlers, the dispatcher   *)
(* process_tool_call and the agentic loop run_agent.                       *)
(*                                                                         *)
(* A path is a sequence of names, a name a sequence of one-character       *)
(* strings; the empty path is the empty string "".  The filesystem is a    *)
(* function from the existing paths (relative to the working directory,    *)
(* which always exists) to nodes.  Every text the program builds with an   *)
(* f-string is a sequence of string tokens: the literal parts of the       *)
(* template and the characters of the values put into it.                  *)
(***************************************************************************)
EXTENDS Integers, Sequences, FiniteSets, TLC

VARIABLES DRY_RUN, fs, messages, response, idx, tool_results, pc, exc,
          calls, emitted, printed, fs0, last, prev, runs, sent,
          system_prompt

vars == <<DRY_RUN, fs, messages, response, idx, tool_results, pc, exc,
          calls, emitted, printed, fs0, last, prev, runs, sent,
          system_prompt>>

(***************************************************************************)
(* Bounds and input universes                                              *)
(***************************************************************************)
\* Model calls in one run (over all the runs, when there are several).
MaxCalls == 3

\* Content blocks the model service sends in one run, over all responses
\* (over all the runs, when there are several).
MaxBlocks == 2

\* Handler calls in a row.
MaxOps == 1

\* Calls of create_folder in a row.
MaxRepeat == 2

\* Runs of run_agent in one process.
MaxRuns == 2

NameD == <<"d">>

NameA == <<"a", ".", "t">>

Names == {NameD, NameA}

Orders == {<<NameD, NameA>>, <<NameA, NameD>>}

(***************************************************************************)
(* Paths and nodes                                                         *)
(***************************************************************************)
FileNode(d) == [type |-> "file", data |-> d]

DirNode == [type |-> "dir", data |-> <<>>]

\* An entry that is neither a regular file nor a directory (a FIFO, a
\* socket, a symbolic link to nothing): os.path.isfile and os.path.isdir
\* are both False on it.
OtherNode == [type |-> "other", data |-> <<>>]

IsPrefix(p, q) == Len(p) <= Len(q) /\ SubSeq(q, 1, Len(p)) = p

exists(f, p) == p \in DOMAIN f

isdir(f, p) == p \in DOMAIN f /\ f[p].type = "dir"

isfile(f, p) == p \in DOMAIN f /\ f[p].type = "file"

dirname(p) == IF p = <<>> THEN <<>> ELSE SubSeq(p, 1, Len(p) - 1)

basename(p) == p[Len(p)]

join(p, entry) == Append(p, entry)

RECURSIVE Str(_)
Str(p) ==
    IF p = <<>> THEN <<>>
    ELSE IF Len(p) = 1 THEN p[1]
    ELSE Str(dirname(p)) \o <<"/">> \o basename(p)

(***************************************************************************)
(* Operating-system calls.  Each returns [ok, fs, exc]: the filesystem     *)
(* after the call and, when ok is FALSE, the exception it raised.          *)
(***************************************************************************)
Ok(f) == [ok |-> TRUE, fs |-> f, exc |-> ""]

Raise(f, e) == [ok |-> FALSE, fs |-> f, exc |-> e]

\* The error of resolving the directories leading to p: "" when every
\* proper prefix of p is a directory.
LookupErr(f, p) ==
    IF p = <<>> THEN "FileNotFoundError"
    ELSE LET bad == {k \in 1..(Len(p) - 1) : ~isdir(f, SubSeq(p, 1, k))}
         IN  IF bad = {} THEN ""
             ELSE LET k == CHOOSE m \in bad : \A n \in bad : m <= n
                  IN  IF exists(f, SubSeq(p, 1, k)) THEN "NotADirectoryError"
                      ELSE "FileNotFoundError"

mkdir(f, p) ==
    IF LookupErr(f, p) # "" THEN Raise(f, LookupErr(f, p))
    ELSE IF exists(f, p) THEN Raise(f, "FileExistsError")
    ELSE Ok([q \in DOMAIN f \cup {p} |-> IF q = p THEN DirNode ELSE f[q]])

RECURSIVE makedirs(_, _, _)
makedirs(f, p, exist_ok) ==
    LET head == dirname(p)
        r == IF head # <<>> /\ ~exists(f, head)
             THEN makedirs(f, head, exist_ok)
             ELSE Ok(f)
    IN  IF ~r.ok /\ r.exc # "FileExistsError" THEN r
        ELSE LET m == mkdir(r.fs, p)
             IN  IF m.ok THEN m
                 ELSE IF ~exist_ok \/ ~isdir(r.fs, p) THEN m
                 ELSE Ok(r.fs)

\* os.listdir: the names of the entries of p, in the order ord gives them
\* (the order of os.listdir is arbitrary).
RECURSIVE Filter(_, _)
Filter(s, keep) ==
    IF s = <<>> THEN <<>>
    ELSE IF s[1] \in keep THEN <<s[1]>> \o Filter(Tail(s), keep)
    ELSE Filter(Tail(s), keep)

listdir(f, p, ord) ==
    IF LookupErr(f, p) # "" THEN Raise(f, LookupErr(f, p))
    ELSE IF ~exists(f, p) THEN Raise(f, "FileNotFoundError")
    ELSE IF ~isdir(f, p) THEN Raise(f, "NotADirectoryError")
    ELSE [ok |-> TRUE, fs |-> f, exc |-> "",
          entries |-> Filter(ord, {n \in Names : join(p, n) \in DOMAIN f})]

\* Moved, with the source left in place.
Moved_KeepsSource(f, src, dst) ==
    LET sub  == {q \in DOMAIN f : IsPrefix(src, q)}
        gone == {q \in DOMAIN f : IsPrefix(dst, q)}
        to(q) == dst \o SubSeq(q, Len(src) + 1, Len(q))
        keep == DOMAIN f \ gone
    IN  [q \in keep \cup {to(s) : s \in sub} |->
            IF q \in keep THEN f[q]
            ELSE f[CHOOSE s \in sub : to(s) = q]]

\* The tree below src (src itself included) re-rooted at dst, the rest of
\* the filesystem kept, whatever was at dst replaced.
Moved(f, src, dst) ==
    LET sub  == {q \in DOMAIN f : IsPrefix(src, q)}
        gone == {q \in DOMAIN f : IsPrefix(dst, q)}
        to(q) == dst \o SubSeq(q, Len(src) + 1, Len(q))
        keep == (DOMAIN f \ sub) \ gone
    IN  [q \in keep \cup {to(s) : s \in sub} |->
            IF q \in keep THEN f[q]
            ELSE f[CHOOSE s \in sub : to(s) = q]]

rename(f, src, dst) ==
    IF LookupErr(f, src) # "" THEN Raise(f, LookupErr(f, src))
    ELSE IF ~exists(f, src) THEN Raise(f, "FileNotFoundError")
    ELSE IF LookupErr(f, dst) # "" THEN Raise(f, LookupErr(f, dst))
    ELSE IF src = dst THEN Ok(f)
    ELSE IF isdir(f, src) /\ IsPrefix(src, dst) THEN Raise(f, "OSError")
    ELSE IF isdir(f, src) /\ isfile(f, dst) THEN Raise(f, "NotADirectoryError")
    ELSE IF isfile(f, src) /\ isdir(f, dst) THEN Raise(f, "IsADirectoryError")
    ELSE IF isdir(f, dst) /\ \E q \in DOMAIN f : IsPrefix(dst, q) /\ q # dst
         THEN Raise(f, "OSError")
    ELSE Ok(Moved(f, src, dst))

\* shutil.move.  When os.rename fails, the copy it falls back on fails on
\* the same paths and leaves the filesystem as it was.
shutil_move(f, src, dst) ==
    LET real_dst == IF isdir(f, dst) /\ src # <<>>
                    THEN join(dst, basename(src))
                    ELSE dst
    IN  IF isdir(f, dst) /\ src = dst THEN rename(f, src, dst)
        ELSE IF isdir(f, dst) /\ exists(f, real_dst) THEN Raise(f, "Error")
        ELSE LET r == rename(f, src, real_dst)
             IN  IF r.ok THEN r
                 ELSE IF isdir(f, src) /\ IsPrefix(src, dst)
                      THEN Raise(f, "Error")
                 ELSE IF isdir(f, src) /\ exists(f, real_dst)
                      THEN Raise(f, "FileExistsError")
                 ELSE r

(***************************************************************************)
(* Texts                                                                   *)
(***************************************************************************)
ErrorText(e) == <<"Error: ", e>>

Digit == <<"0", "1", "2", "3", "4", "5", "6", "7", "8", "9">>

RECURSIVE StrInt(_)
StrInt(n) ==
    IF n < 10 THEN <<Digit[n + 1]>>
    ELSE StrInt(n \div 10) \o <<Digit[(n % 10) + 1]>>

\* os.path.splitext(entry)[1]: from the last dot on, unless that dot is
\* one of the leading dots of the name.
splitext_ext(entry) ==
    LET dots == {k \in 1..Len(entry) : entry[k] = "."}
    IN  IF dots = {} THEN <<>>
        ELSE LET k == CHOOSE m \in dots : \A n \in dots : n <= m
             IN  IF \A j \in 1..k : entry[j] = "." THEN <<>>
                 ELSE SubSeq(entry, k, Len(entry))

RECURSIVE JoinLines(_)
JoinLines(ls) ==
    IF ls = <<>> THEN <<>>
    ELSE IF Len(ls) = 1 THEN ls[1]
    ELSE ls[1] \o <<"\n">> \o JoinLines(Tail(ls))

(***************************************************************************)
(* Tool handlers.  Each returns [raised, exc, result, fs]: whether an      *)
(* exception left the handler, the text it returned otherwise, and the     *)
(* filesystem after the call.                                              *)
(***************************************************************************)
Return(f, text) == [raised |-> FALSE, exc |-> "", result |-> text, fs |-> f]

Throw(f, e) == [raised |-> TRUE, exc |-> e, result |-> <<>>, fs |-> f]

EntryLine(f, path, entry) ==
    LET full_path == join(path, entry)
    IN  IF isfile(f, full_path)
        THEN LET ext == IF splitext_ext(entry) # <<>>
                        THEN splitext_ext(entry)
                        ELSE <<"(no extension)">>
             IN  <<"FILE: ">> \o entry \o <<" | Extension: ">> \o ext
                 \o <<" | Size: ">> \o StrInt(Len(f[full_path].data))
                 \o <<" bytes">>
        ELSE <<"DIR:  ">> \o entry \o <<"/">>

list_directory(f, path, ord) ==
    LET l == listdir(f, path, ord)
    IN  IF ~l.ok THEN Return(f, ErrorText(l.exc))
        ELSE LET entries == [k \in 1..Len(l.entries) |->
                                EntryLine(f, path, l.entries[k])]
             IN  Return(f, IF entries # <<>> THEN JoinLines(entries)
                           ELSE <<"Directory is empty">>)

\* move_file without the DRY_RUN test.
move_file_IgnoresDryRun(f, dry, source, destination) ==
    LET dest_dir == dirname(destination)
        d == IF dest_dir # <<>> /\ ~exists(f, dest_dir)
             THEN makedirs(f, dest_dir, FALSE)
             ELSE Ok(f)
    IN  IF ~d.ok THEN Return(d.fs, ErrorText(d.exc))
        ELSE LET m == shutil_move(d.fs, source, destination)
             IN  IF ~m.ok THEN Return(m.fs, ErrorText(m.exc))
                 ELSE Return(m.fs, <<"Moved ">> \o Str(source)
                                   \o <<" to ">> \o Str(destination))

move_file(f, dry, source, destination) ==
    IF dry
    THEN Return(f, <<"[DRY-RUN]", " Would move ">> \o Str(source)
                   \o <<" to ">> \o Str(destination))
    ELSE LET dest_dir == dirname(destination)
             d == IF dest_dir # <<>> /\ ~exists(f, dest_dir)
                  THEN makedirs(f, dest_dir, FALSE)
                  ELSE Ok(f)
         IN  IF ~d.ok THEN Return(d.fs, ErrorText(d.exc))
             ELSE LET m == shutil_move(d.fs, source, destination)
                  IN  IF ~m.ok THEN Return(m.fs, ErrorText(m.exc))
                      ELSE Return(m.fs, <<"Moved ">> \o Str(source)
                                        \o <<" to ">> \o Str(destination))

\* create_folder with os.makedirs called without exist_ok.
create_folder_NotExistOk(f, dry, path) ==
    IF dry
    THEN Return(f, <<"[DRY-RUN]", " Would create folder: ">> \o Str(path))
    ELSE LET m == makedirs(f, path, FALSE)
         IN  IF ~m.ok THEN Return(m.fs, ErrorText(m.exc))
             ELSE Return(m.fs, <<"Created folder: ">> \o Str(path))

create_folder(f, dry, path) ==
    IF dry
    THEN Return(f, <<"[DRY-RUN]", " Would create folder: ">> \o Str(path))
    ELSE LET m == makedirs(f, path, TRUE)
         IN  IF ~m.ok THEN Return(m.fs, ErrorText(m.exc))
             ELSE Return(m.fs, <<"Created folder: ">> \o Str(path))

\* tool_input[key] raises KeyError when the mapping has no such key.
HasKeys(tool_input, keys) == keys \subseteq DOMAIN tool_input

\* process_tool_call raising on a name it does not know.
process_tool_call_UnknownRaises(f, dry, tool_name, tool_input, ord) ==
    IF tool_name = "list_directory"
    THEN IF ~HasKeys(tool_input, {"path"}) THEN Throw(f, "KeyError")
         ELSE list_directory(f, tool_input["path"], ord)
    ELSE IF tool_name = "move_file"
    THEN IF ~HasKeys(tool_input, {"source", "destination"})
         THEN Throw(f, "KeyError")
         ELSE move_file(f, dry, tool_input["source"],
                        tool_input["destination"])
    ELSE IF tool_name = "create_folder"
    THEN IF ~HasKeys(tool_input, {"path"}) THEN Throw(f, "KeyError")
         ELSE create_folder(f, dry, tool_input["path"])
    ELSE Throw(f, "ValueError")

process_tool_call(f, dry, tool_name, tool_input, ord) ==
    IF tool_name = "list_directory"
    THEN IF ~HasKeys(tool_input, {"path"}) THEN Throw(f, "KeyError")
         ELSE list_directory(f, tool_input["path"], ord)
    ELSE IF tool_name = "move_file"
    THEN IF ~HasKeys(tool_input, {"source", "destination"})
         THEN Throw(f, "KeyError")
         ELSE move_file(f, dry, tool_input["source"],
                        tool_input["destination"])
    ELSE IF tool_name = "create_folder"
    THEN IF ~HasKeys(tool_input, {"path"}) THEN Throw(f, "KeyError")
         ELSE create_folder(f, dry, tool_input["path"])
    ELSE Return(f, <<"Unknown tool: ", tool_name>>)

(***************************************************************************)
(* Model responses                                                         *)
(***************************************************************************)
PathA == <<NameA>>

PathDA == <<NameD, NameA>>

TextBlock(t) == [type |-> "text", text |-> t]

ToolUseBlock(id, name, input) ==
    [type |-> "tool_use", id |-> id, name |-> name, input |-> input]

\* The identifiers of the tool_use blocks of one response.
Ids == {<<"toolu", k>> : k \in 1..MaxBlocks}

\* The tool invocations the model service answers with: each declared
\* tool, a name that is not declared, and a declared tool whose arguments
\* lack a required field.
ToolCalls ==
    { [name |-> "list_directory", input |-> [path |-> PathDA]],
      [name |-> "move_file", input |-> [source |-> PathA, destination |-> PathDA]],
      [name |-> "create_folder", input |-> [path |-> PathDA]],
      [name |-> "delete_file", input |-> [path |-> PathA]],
      [name |-> "move_file", input |-> [source |-> PathA]] }

Blocks ==
    {TextBlock("plan")}
    \cup {ToolUseBlock(id, c.name, c.input) : id \in Ids, c \in ToolCalls}

IsToolUse(block) == block.type = "tool_use"

ToolUses(content) == {k \in 1..Len(content) : IsToolUse(content[k])}

\* The tool_use blocks of content, in order.
RECURSIVE Requests(_)
Requests(content) ==
    IF content = <<>> THEN <<>>
    ELSE IF IsToolUse(content[1]) THEN <<content[1]>> \o Requests(Tail(content))
    ELSE Requests(Tail(content))

\* The service numbers the tool_use blocks of a response in some order of
\* its own: here by their position, counted from either end.
DistinctIds(content) ==
    \/ \A k \in ToolUses(content) : content[k].id = <<"toolu", k>>
    \/ \A k \in ToolUses(content) :
          content[k].id = <<"toolu", Len(content) + 1 - k>>

\* The contents of at most n blocks.
Contents(n) ==
    {c \in UNION {[1..m -> Blocks] : m \in 0..n} : DistinctIds(c)}

StopReasons == {"end_turn", "tool_use", "max_tokens"}

Responses(n) == [stop_reason : StopReasons, content : Contents(n)]

NoResponse == [stop_reason |-> "", content |-> <<>>]

NoCall == [name |-> "(none)", input |-> <<>>, pre |-> <<>>, dry |-> FALSE,
           out |-> Return(<<>>, <<>>)]

UserRequests == {"Please look at the files in . and suggest how to organize them."}

(***************************************************************************)
(* Initial states                                                          *)
(***************************************************************************)
\* The content of the file first found at p: files at different paths
\* hold different bytes.
DataOf(p) == [k \in 1..Len(p) |-> Len(p[k])]

AgentFS == [p \in {PathA} |-> FileNode(DataOf(p))]

Init ==
    /\ DRY_RUN = FALSE
    /\ fs = AgentFS
    /\ messages = <<>>
    /\ response = NoResponse
    /\ idx = 0
    /\ tool_results = <<>>
    /\ pc = "idle"
    /\ exc = ""
    /\ calls = 0
    /\ emitted = 0
    /\ printed = <<>>
    /\ fs0 = fs
    /\ last = NoCall
    /\ prev = NoCall
    /\ runs = 0
    /\ sent = <<>>
    /\ system_prompt = ""

(***************************************************************************)
(* run_agent                                                               *)
(***************************************************************************)
PreviewPrompt == "You are a helpful file organizer agent in PREVIEW MODE."

InteractivePrompt == "You are a helpful file organizer agent."

RunAgent(user_request, dry_run) ==
    /\ pc = "idle"
    /\ DRY_RUN' = dry_run
    /\ printed' = Append(printed,
                    <<"User Request: ", user_request>>
                    \o (IF dry_run THEN <<" [DRY-RUN MODE]">> ELSE <<>>))
    /\ messages' = <<[role |-> "user", content |-> user_request]>>
    /\ fs0' = fs
    /\ pc' = "call"
    /\ runs' = runs + 1
    /\ system_prompt' = IF dry_run THEN PreviewPrompt ELSE InteractivePrompt
    /\ UNCHANGED <<fs, response, idx, tool_results, exc, calls, last, emitted,
                   prev, sent>>

\* client.messages.create returns a response.
MessagesCreate(r) ==
    /\ pc = "call"
    /\ calls < MaxCalls
    /\ response' = r
    /\ calls' = calls + 1
    /\ emitted' = emitted + Len(r.content)
    /\ sent' = messages
    /\ pc' = "recv"
    /\ UNCHANGED <<DRY_RUN, fs, messages, idx, tool_results, exc, printed,
                   fs0, last, prev, runs,
                   system_prompt>>

\* MessagesCreateFails, with the failed call caught and made again.
MessagesCreateFails_Retries ==
    /\ pc = "call"
    /\ calls < MaxCalls
    /\ calls' = calls + 1
    /\ pc' = "call"
    /\ exc' = "APIError"
    /\ sent' = messages
    /\ UNCHANGED <<DRY_RUN, fs, messages, response, idx, tool_results,
                   printed, fs0, last, emitted, prev, runs,
                   system_prompt>>

\* client.messages.create raises: nothing catches it.
MessagesCreateFails ==
    /\ pc = "call"
    /\ calls < MaxCalls
    /\ calls' = calls + 1
    /\ pc' = "raised"
    /\ exc' = "APIError"
    /\ sent' = messages
    /\ UNCHANGED <<DRY_RUN, fs, messages, response, idx, tool_results,
                   printed, fs0, last, emitted, prev, runs,
                   system_prompt>>

RECURSIVE AgentTexts(_)
AgentTexts(content) ==
    IF content = <<>> THEN <<>>
    ELSE IF "text" \in DOMAIN content[1]
         THEN <<(<<"Agent: ", content[1].text>>)>> \o AgentTexts(Tail(content))
         ELSE AgentTexts(Tail(content))

\* EndTurn, with the final response appended to the transcript.
EndTurn_AppendsTurn ==
    /\ pc = "recv"
    /\ response.stop_reason = "end_turn"
    /\ printed' = printed \o AgentTexts(response.content)
                  \o <<(<<"[Agent finished]">>)>>
    /\ messages' = Append(messages,
                     [role |-> "assistant", content |-> response.content])
    /\ pc' = "finished"
    /\ UNCHANGED <<DRY_RUN, fs, response, idx, tool_results, exc, calls, fs0,
                   last, emitted, prev, runs, sent,
                   system_prompt>>

EndTurn ==
    /\ pc = "recv"
    /\ response.stop_reason = "end_turn"
    /\ printed' = printed \o AgentTexts(response.content)
                  \o <<(<<"[Agent finished]">>)>>
    /\ pc' = "finished"
    /\ UNCHANGED <<DRY_RUN, fs, messages, response, idx, tool_results, exc,
                   calls, fs0, last, emitted, prev, runs, sent,
                   system_prompt>>

ToolUse ==
    /\ pc = "recv"
    /\ response.stop_reason = "tool_use"
    /\ printed' = printed \o AgentTexts(response.content)
    /\ messages' = Append(messages,
                     [role |-> "assistant", content |-> response.content])
    /\ tool_results' = <<>>
    /\ idx' = 1
    /\ pc' = "tools"
    /\ UNCHANGED <<DRY_RUN, fs, response, exc, calls, fs0, last, emitted,
                   prev, runs, sent,
                   system_prompt>>

\* OtherStop, with the response handled as a tool_use response.
OtherStop_RunsTools ==
    /\ pc = "recv"
    /\ response.stop_reason \notin {"end_turn", "tool_use"}
    /\ printed' = printed \o AgentTexts(response.content)
    /\ messages' = Append(messages,
                     [role |-> "assistant", content |-> response.content])
    /\ tool_results' = <<>>
    /\ idx' = 1
    /\ pc' = "tools"
    /\ UNCHANGED <<DRY_RUN, fs, response, exc, calls, fs0, last, emitted,
                   prev, runs, sent, system_prompt>>

\* Neither branch is taken: the while loop starts over.
OtherStop ==
    /\ pc = "recv"
    /\ response.stop_reason \notin {"end_turn", "tool_use"}
    /\ printed' = printed \o AgentTexts(response.content)
    /\ pc' = "call"
    /\ UNCHANGED <<DRY_RUN, fs, messages, response, idx, tool_results, exc,
                   calls, fs0, last, emitted, prev, runs, sent,
                   system_prompt>>

KeyOrder == <<"source", "destination", "path">>

RECURSIVE InputText(_, _)
InputText(input, keys) ==
    IF keys = <<>> THEN <<>>
    ELSE IF keys[1] \in DOMAIN input
         THEN <<keys[1], ": ">> \o Str(input[keys[1]]) \o <<"\n">>
              \o InputText(input, Tail(keys))
         ELSE InputText(input, Tail(keys))

ToolResult(block, result) ==
    [type |-> "tool_result", tool_use_id |-> block.id, content |-> result]

\* ExecuteTool, with the requests of the first response answered without
\* being executed when the run is not a dry run.
ExecuteTool_Guarded(ord) ==
    /\ pc = "tools"
    /\ idx <= Len(response.content)
    /\ IsToolUse(response.content[idx])
    /\ LET block == response.content[idx]
           out == IF ~DRY_RUN /\ calls = 1
                  THEN Return(fs, <<"Please confirm first">>)
                  ELSE process_tool_call(fs, DRY_RUN, block.name, block.input,
                                         ord)
           shown == printed \o << <<"[Tool Call] ", block.name>>,
                                  <<"[Input] ">> \o InputText(block.input, KeyOrder) >>
       IN  /\ fs' = out.fs
           /\ last' = [name |-> block.name, input |-> block.input,
                       pre |-> fs, dry |-> DRY_RUN, out |-> out]
           /\ prev' = last
           /\ IF out.raised
              THEN /\ pc' = "raised"
                   /\ exc' = out.exc
                   /\ printed' = shown
                   /\ UNCHANGED <<idx, tool_results>>
              ELSE /\ printed' = Append(shown, <<"[Result] ">> \o out.result)
                   /\ tool_results' = Append(tool_results,
                                             ToolResult(block, out.result))
                   /\ idx' = idx + 1
                   /\ UNCHANGED <<pc, exc>>
    /\ UNCHANGED <<DRY_RUN, messages, response, calls, fs0, emitted, runs,
                   sent,
                   system_prompt>>

\* One pass of the for loop over a tool_use block.
ExecuteTool(ord) ==
    /\ pc = "tools"
    /\ idx <= Len(response.content)
    /\ IsToolUse(response.content[idx])
    /\ LET block == response.content[idx]
           out == process_tool_call(fs, DRY_RUN, block.name, block.input, ord)
           shown == printed \o << <<"[Tool Call] ", block.name>>,
                                  <<"[Input] ">> \o InputText(block.input, KeyOrder) >>
       IN  /\ fs' = out.fs
           /\ last' = [name |-> block.name, input |-> block.input,
                       pre |-> fs, dry |-> DRY_RUN, out |-> out]
           /\ prev' = last
           /\ IF out.raised
              THEN /\ pc' = "raised"
                   /\ exc' = out.exc
                   /\ printed' = shown
                   /\ UNCHANGED <<idx, tool_results>>
              ELSE /\ printed' = Append(shown, <<"[Result] ">> \o out.result)
                   /\ tool_results' = Append(tool_results,
                                             ToolResult(block, out.result))
                   /\ idx' = idx + 1
                   /\ UNCHANGED <<pc, exc>>
    /\ UNCHANGED <<DRY_RUN, messages, response, calls, fs0, emitted, runs,
                   sent,
                   system_prompt>>

\* One pass of the for loop over a block that is not a tool_use.
SkipBlock ==
    /\ pc = "tools"
    /\ idx <= Len(response.content)
    /\ ~IsToolUse(response.content[idx])
    /\ idx' = idx + 1
    /\ UNCHANGED <<DRY_RUN, fs, messages, response, tool_results, pc, exc,
                   calls, printed, fs0, last, emitted, prev, runs, sent,
                   system_prompt>>

\* SendResults, with the results sent under the assistant role.
SendResults_AsAssistant ==
    /\ pc = "tools"
    /\ idx > Len(response.content)
    /\ messages' = Append(messages,
                     [role |-> "assistant", content |-> tool_results])
    /\ pc' = "call"
    /\ UNCHANGED <<DRY_RUN, fs, response, idx, tool_results, exc, calls,
                   printed, fs0, last, emitted, prev, runs, sent,
                   system_prompt>>

\* The for loop is over: the results go back as one user turn.
SendResults ==
    /\ pc = "tools"
    /\ idx > Len(response.content)
    /\ messages' = Append(messages,
                     [role |-> "user", content |-> tool_results])
    /\ pc' = "call"
    /\ UNCHANGED <<DRY_RUN, fs, response, idx, tool_results, exc, calls,
                   printed, fs0, last, emitted, prev, runs, sent,
                   system_prompt>>

Next ==
    \/ \E u \in UserRequests, d \in BOOLEAN : RunAgent(u, d)
    \/ \E r \in Responses(MaxBlocks - emitted) : MessagesCreate(r)
    \/ MessagesCreateFails
    \/ EndTurn
    \/ ToolUse
    \/ OtherStop
    \/ \E ord \in Orders : ExecuteTool(ord)
    \/ SkipBlock
    \/ SendResults

Spec == Init /\ [][Next]_vars

(***************************************************************************)
(* Several runs in one process: run_agent is called again after it has     *)
(* returned or raised.  The locals of the run that is over are gone; the   *)
(* global DRY_RUN, the filesystem and what was printed stay.  The bounds   *)
(* on model calls and content blocks count over all the runs.              *)
(***************************************************************************)
\* RunAgentAgain, with the global left as the run before set it.
RunAgentAgain_KeepsFlag(user_request, dry_run) ==
    /\ pc \in {"finished", "raised"}
    /\ runs < MaxRuns
    /\ DRY_RUN' = DRY_RUN
    /\ printed' = Append(printed,
                    <<"User Request: ", user_request>>
                    \o (IF dry_run THEN <<" [DRY-RUN MODE]">> ELSE <<>>))
    /\ messages' = <<[role |-> "user", content |-> user_request]>>
    /\ system_prompt' = IF dry_run THEN PreviewPrompt ELSE InteractivePrompt
    /\ response' = NoResponse
    /\ idx' = 0
    /\ tool_results' = <<>>
    /\ exc' = ""
    /\ fs0' = fs
    /\ pc' = "call"
    /\ runs' = runs + 1
    /\ UNCHANGED <<fs, calls, last, emitted, prev, sent>>

RunAgentAgain(user_request, dry_run) ==
    /\ pc \in {"finished", "raised"}
    /\ runs < MaxRuns
    /\ DRY_RUN' = dry_run
    /\ printed' = Append(printed,
                    <<"User Request: ", user_request>>
                    \o (IF dry_run THEN <<" [DRY-RUN MODE]">> ELSE <<>>))
    /\ messages' = <<[role |-> "user", content |-> user_request]>>
    /\ system_prompt' = IF dry_run THEN PreviewPrompt ELSE InteractivePrompt
    /\ response' = NoResponse
    /\ idx' = 0
    /\ tool_results' = <<>>
    /\ exc' = ""
    /\ fs0' = fs
    /\ pc' = "call"
    /\ runs' = runs + 1
    /\ UNCHANGED <<fs, calls, last, emitted, prev, sent>>

NextRuns ==
    \/ Next
    \/ \E u \in UserRequests, d \in BOOLEAN : RunAgentAgain(u, d)

SpecRuns == Init /\ [][NextRuns]_vars

(***************************************************************************)
(* The tool handlers on their own: every filesystem of depth two, either   *)
(* value of DRY_RUN, every argument.                                       *)
(***************************************************************************)
InitPaths == {<<n>> : n \in Names} \cup {<<n, m>> : n \in Names, m \in Names}

ArgPaths == {<<>>} \cup InitPaths

Trees ==
    {t \in UNION {[S -> {"file", "dir"}] : S \in SUBSET InitPaths} :
        \A p \in DOMAIN t :
            Len(p) > 1 => dirname(p) \in DOMAIN t /\ t[dirname(p)] = "dir"}

InitFS ==
    {[p \in DOMAIN t |-> IF t[p] = "dir" THEN DirNode ELSE FileNode(DataOf(p))] :
        t \in Trees}

ToolNames == {"list_directory", "move_file", "create_folder", "delete_file", ""}

ToolInputs ==
    {<<>>}
    \cup {[path |-> p] : p \in {PathA, PathDA}}
    \cup {[source |-> p] : p \in {PathA}}
    \cup {[source |-> p, destination |-> q] : p \in {PathA}, q \in {PathDA}}

InitTools ==
    /\ DRY_RUN \in BOOLEAN
    /\ fs \in InitFS
    /\ messages = <<>>
    /\ response = NoResponse
    /\ idx = 0
    /\ tool_results = <<>>
    /\ pc = "handlers"
    /\ exc = ""
    /\ calls = 0
    /\ emitted = 0
    /\ printed = <<>>
    /\ fs0 = fs
    /\ last = NoCall
    /\ prev = NoCall
    /\ runs = 0
    /\ sent = <<>>
    /\ system_prompt = ""

\* A handler is called from outside the loop, at most n times in a row.
CalledUpTo(n, name, input, out) ==
    /\ pc = "handlers"
    /\ calls < n
    /\ calls' = calls + 1
    /\ fs' = out.fs
    /\ last' = [name |-> name, input |-> input, pre |-> fs, dry |-> DRY_RUN,
                out |-> out]
    /\ prev' = last
    /\ UNCHANGED <<DRY_RUN, messages, response, idx, tool_results, pc, exc,
                   printed, fs0, emitted, runs, sent,
                   system_prompt>>

Called(name, input, out) == CalledUpTo(MaxOps, name, input, out)

CallListDirectory(path, ord) ==
    Called("list_directory", [path |-> path], list_directory(fs, path, ord))

CallMoveFile(source, destination) ==
    Called("move_file", [source |-> source, destination |-> destination],
           move_file(fs, DRY_RUN, source, destination))

CallCreateFolder(path) ==
    Called("create_folder", [path |-> path], create_folder(fs, DRY_RUN, path))

CallProcessToolCall(tool_name, tool_input, ord) ==
    Called(tool_name, tool_input,
           process_tool_call(fs, DRY_RUN, tool_name, tool_input, ord))

NextTools ==
    \/ \E p \in ArgPaths, ord \in Orders : CallListDirectory(p, ord)
    \/ \E s \in ArgPaths, d \in ArgPaths : CallMoveFile(s, d)
    \/ \E p \in ArgPaths : CallCreateFolder(p)
    \/ \E n \in ToolNames, i \in ToolInputs, ord \in Orders :
          CallProcessToolCall(n, i, ord)

SpecTools == InitTools /\ [][NextTools]_vars

(***************************************************************************)
(* list_directory on its own, over filesystems that also hold entries      *)
(* that are neither regular files nor directories.                         *)
(***************************************************************************)
ListTrees ==
    {t \in UNION {[S -> {"file", "dir", "other"}] : S \in SUBSET InitPaths} :
        \A p \in DOMAIN t :
            Len(p) > 1 => dirname(p) \in DOMAIN t /\ t[dirname(p)] = "dir"}

ListFS ==
    {[p \in DOMAIN t |-> IF t[p] = "dir" THEN DirNode
                         ELSE IF t[p] = "file" THEN FileNode(DataOf(p))
                         ELSE OtherNode] :
        t \in ListTrees}

InitList ==
    /\ DRY_RUN \in BOOLEAN
    /\ fs \in ListFS
    /\ messages = <<>>
    /\ response = NoResponse
    /\ idx = 0
    /\ tool_results = <<>>
    /\ pc = "handlers"
    /\ exc = ""
    /\ calls = 0
    /\ emitted = 0
    /\ printed = <<>>
    /\ fs0 = fs
    /\ last = NoCall
    /\ prev = NoCall
    /\ runs = 0
    /\ sent = <<>>
    /\ system_prompt = ""

NextList == \E p \in ArgPaths, ord \in Orders : CallListDirectory(p, ord)

SpecList == InitList /\ [][NextList]_vars

(***************************************************************************)
(* create_folder called several times in a row.                            *)
(***************************************************************************)
CallCreateFolderAgain(path) ==
    CalledUpTo(MaxRepeat, "create_folder", [path |-> path],
               create_folder(fs, DRY_RUN, path))

NextFolders == \E p \in ArgPaths : CallCreateFolderAgain(p)

SpecFolders == InitTools /\ [][NextFolders]_vars

(***************************************************************************)
(* Properties                                                              *)
(***************************************************************************)
KnownTools == {"list_directory", "move_file", "create_folder"}

Invoked == last.name # "(none)"

ContainsSeq(text, part) ==
    \E k \in 0..(Len(text) - Len(part)) :
        SubSeq(text, k + 1, k + Len(part)) = part

Piece(text, k) == IF k <= Len(text) THEN text[k] ELSE ""

IsErrorText(text) == Piece(text, 1) = "Error: "

ResultsMatch(results, requests) ==
    /\ Len(results) = Len(requests)
    /\ \A k \in 1..Len(requests) :
          /\ results[k].type = "tool_result"
          /\ results[k].tool_use_id = requests[k].id

\* The block the for loop is at.
AtToolUse ==
    /\ pc = "tools"
    /\ idx <= Len(response.content)
    /\ IsToolUse(response.content[idx])

\* C1: once a response with stop_reason tool_use has been handled, the
\* transcript ends with the assistant turn of that response followed by one
\* user turn holding one result per tool_use block, the i-th result carrying
\* the id of the i-th block.
C1_RoundTrip ==
    (response.stop_reason = "tool_use" /\ pc \in {"call", "raised", "finished"})
    => /\ Len(messages) >= 3
       /\ messages[Len(messages) - 1] =
             [role |-> "assistant", content |-> response.content]
       /\ messages[Len(messages)].role = "user"
       /\ ResultsMatch(messages[Len(messages)].content,
                       Requests(response.content))

\* C2: in a run started with dry_run, the filesystem is at every state the
\* filesystem the run started with.
C2_DryRunNoMutation == DRY_RUN => fs = fs0

\* C2 witness: a dry run has executed a move_file and a create_folder.
C2_Witness ==
    /\ DRY_RUN
    /\ Len(tool_results) = 2
    /\ Piece(tool_results[1].content, 2) = " Would move "
    /\ Piece(tool_results[2].content, 2) = " Would create folder: "

IsResultsTurn(m) ==
    /\ m.role = "user"
    /\ \A k \in 1..Len(m.content) : m.content[k].type = "tool_result"

TranscriptOK(m) ==
    /\ Len(m) % 2 = 1
    /\ m[1].role = "user"
    /\ m[1].content \in UserRequests
    /\ \A k \in 2..Len(m) :
          IF k % 2 = 0 THEN m[k].role = "assistant" ELSE IsResultsTurn(m[k])

\* C3: whenever the transcript is sent to the model service it starts with
\* the initial user turn, user and assistant turns alternate, every assistant
\* turn is followed by a user turn of tool results and the last turn is a
\* user turn; while an assistant turn has no results turn yet the loop is
\* executing tools (or has been aborted there), not calling the model.
C3_TranscriptAlternates ==
    /\ pc \in {"call", "recv"} => TranscriptOK(messages)
    /\ (messages # <<>> /\ messages[Len(messages)].role = "assistant")
          => pc \in {"tools", "raised"}

\* C3 witness: the second model call is about to be made with a transcript
\* of three turns.
C3_Witness ==
    /\ pc = "call"
    /\ calls = 1
    /\ Len(messages) = 3
    /\ Len(messages[3].content) = 2

\* C4: after a response whose stop_reason is neither end_turn nor tool_use
\* the loop halts: no further model call is made.
C4_UnrecognizedStopHalts ==
    [][(response.stop_reason \notin {"", "end_turn", "tool_use"})
         => calls' = calls]_vars

\* C5 as stated: when the first response is end_turn with no tool_use block,
\* the final transcript is the initial user turn plus the assistant turn of
\* that response.
C5_FinalTranscriptHasAssistantTurn ==
    (pc = "finished" /\ calls = 1 /\ ToolUses(response.content) = {})
    => /\ Len(messages) = 2
       /\ messages[1].role = "user"
       /\ messages[2] = [role |-> "assistant", content |-> response.content]

\* C5 amended: when the first response is end_turn with no tool_use block,
\* the loop halts having printed the texts of the response and the finished
\* marker, and the final transcript is the initial user turn alone.
C5_FinalTranscriptIsInitialTurn ==
    (pc = "finished" /\ calls = 1 /\ ToolUses(response.content) = {})
    => /\ Len(messages) = 1
       /\ messages[1].role = "user"
       /\ messages[1].content \in UserRequests
       /\ SubSeq(printed, 2, Len(printed)) =
             [k \in 1..Len(response.content) |->
                <<"Agent: ", response.content[k].text>>]
             \o << <<"[Agent finished]">> >>

\* C5 witness: the first response was end_turn with two text blocks and the
\* run is over.
C5_Witness ==
    /\ pc = "finished"
    /\ calls = 1
    /\ Len(response.content) = 2
    /\ ToolUses(response.content) = {}

\* C6: the run is over only after an end_turn response or a failed model
\* call; an end_turn response ends it with no tool executed and no turn
\* appended, whatever blocks it holds.
C6_HaltsOnlyOnEndTurn ==
    /\ pc \in {"finished", "raised"}
          => (response.stop_reason = "end_turn" \/ exc = "APIError")
    /\ pc = "finished" => response.stop_reason = "end_turn"

\* C7: a tool_use block whose name is not a declared tool gets, for every
\* argument mapping, the result "Unknown tool: <name>" with nothing raised and
\* the filesystem untouched; the loop records that result under the block's
\* id and goes on to the next block.
C7_UnknownTool ==
    [][(AtToolUse /\ response.content[idx].name \notin KnownTools)
         => LET block == response.content[idx]
                text == <<"Unknown tool: ", block.name>>
            IN  /\ \A i \in ToolInputs \cup {block.input}, ord \in Orders :
                      process_tool_call(fs, DRY_RUN, block.name, i, ord)
                         = Return(fs, text)
                /\ fs' = fs
                /\ tool_results' = Append(tool_results, ToolResult(block, text))
                /\ idx' = idx + 1
                /\ pc' = "tools"
                /\ exc' = exc]_vars

\* C7 witness: an unknown tool was answered and the request after it was
\* executed too.
C7_Witness ==
    /\ pc = "tools"
    /\ Len(tool_results) = 2
    /\ tool_results[1].content = <<"Unknown tool: ", "delete_file">>
    /\ Piece(tool_results[2].content, 1) # "Unknown tool: "

\* C8: a declared tool called with its required arguments raises nothing and
\* its result is recorded; once an error result has been recorded, the loop
\* goes through the remaining blocks and on to the next model call.
C8_ErrorsAreText ==
    [][/\ (AtToolUse /\ response.content[idx].name \in KnownTools
              /\ (IF response.content[idx].name = "move_file"
                  THEN HasKeys(response.content[idx].input,
                               {"source", "destination"})
                  ELSE HasKeys(response.content[idx].input, {"path"})))
          => (pc' = "tools" /\ Len(tool_results') = Len(tool_results) + 1)
       /\ (pc = "tools" /\ \E k \in 1..Len(tool_results) :
                              IsErrorText(tool_results[k].content))
          => pc' \in {"tools", "call"}]_vars

Subtree(f, p) ==
    {<<SubSeq(q, Len(p) + 1, Len(q)), f[q]>> : q \in {r \in DOMAIN f : IsPrefix(p, r)}}

AncestorsAreDirs(f, p) == \A k \in 1..(Len(p) - 1) : isdir(f, SubSeq(p, 1, k))

MoveWorked ==
    /\ ~exists(last.out.fs, last.input["source"])
    /\ exists(last.out.fs, last.input["destination"])
    /\ Subtree(last.out.fs, last.input["destination"])
          = Subtree(last.pre, last.input["source"])
    /\ AncestorsAreDirs(last.out.fs, last.input["destination"])

MoveOfExisting ==
    /\ last.name = "move_file"
    /\ HasKeys(last.input, {"source", "destination"})
    /\ ~last.dry
    /\ exists(last.pre, last.input["source"])

C10_DryRunMove ==
    (/\ last.name = "move_file"
     /\ HasKeys(last.input, {"source", "destination"})
     /\ last.dry)
    => /\ ~last.out.raised
       /\ last.out.result[1] = "[DRY-RUN]"
       /\ ~IsErrorText(last.out.result)
       /\ ContainsSeq(last.out.result, Str(last.input["source"]))
       /\ ContainsSeq(last.out.result, Str(last.input["destination"]))
       /\ last.out.fs = last.pre
       /\ fs = last.pre

\* C10 witness: move_file was called under dry-run with a source that does
\* not exist and a destination whose directory does not exist.
C10_Witness ==
    /\ last.name = "move_file"
    /\ last.dry
    /\ HasKeys(last.input, {"source", "destination"})
    /\ Len(last.input["source"]) = 2
    /\ ~exists(last.pre, last.input["source"])
    /\ Len(last.input["destination"]) = 2
    /\ ~exists(last.pre, dirname(last.input["destination"]))

\* create_folder was called twice in a row on the same path, dry-run off.
CreatedTwice ==
    /\ prev.name = "create_folder"
    /\ last.name = "create_folder"
    /\ prev.input = last.input
    /\ ~prev.dry
    /\ ~last.dry

SecondCallIsNoOp ==
    /\ ~last.out.raised
    /\ ~IsErrorText(last.out.result)
    /\ isdir(prev.out.fs, last.input["path"])
    /\ isdir(last.out.fs, last.input["path"])
    /\ last.out.fs = prev.out.fs

\* C11 as stated: for every path, after create_folder was called twice in a
\* row without dry-run, the second call did not return an error result, the
\* directory exists after the first and after the second call, and the
\* filesystem after the second call is the filesystem after the first.
C11_CreateFolderIdempotent == CreatedTwice => SecondCallIsNoOp

\* C11 amended: the second call always leaves the filesystem of the first
\* and returns the result of the first; when the first call did not return
\* an error result, neither does the second and the directory exists after
\* both calls.
C11_CreateFolderIdempotentOnSuccess ==
    CreatedTwice
    => /\ last.pre = prev.out.fs
       /\ last.out.fs = prev.out.fs
       /\ last.out.result = prev.out.result
       /\ ~prev.out.raised /\ ~last.out.raised
       /\ ~IsErrorText(prev.out.result) => SecondCallIsNoOp

\* C11 witness: the first call created the directory and its parent, the
\* second call found them.
C11_Witness ==
    /\ CreatedTwice
    /\ Len(last.input["path"]) = 2
    /\ ~exists(prev.pre, dirname(last.input["path"]))
    /\ isdir(last.pre, last.input["path"])
    /\ last.out.result[1] = "Created folder: "

\* The lines of a text: its parts between line feeds.
RECURSIVE SplitLines(_)
SplitLines(text) ==
    LET feeds == {k \in 1..Len(text) : text[k] = "\n"}
    IN  IF feeds = {} THEN <<text>>
        ELSE LET k == CHOOSE m \in feeds : \A n \in feeds : m <= n
             IN  <<SubSeq(text, 1, k - 1)>>
                 \o SplitLines(SubSeq(text, k + 1, Len(text)))

\* The extension of a name: what follows its last dot, the dot included,
\* when a dot stands after the first character.
Extension(name) ==
    LET dots == {k \in 2..Len(name) : name[k] = "."}
    IN  IF dots = {} THEN <<"(no extension)">>
        ELSE SubSeq(name, CHOOSE m \in dots : \A n \in dots : n <= m, Len(name))

\* line is a correct report of the entry called name of directory path.
LineReports(f, path, name, line) ==
    LET p == join(path, name)
    IN  /\ SubSeq(line, 2, Len(name) + 1) = name
        /\ isfile(f, p) =>
              line = <<"FILE: ">> \o name \o <<" | Extension: ">>
                     \o Extension(name) \o <<" | Size: ">>
                     \o StrInt(Len(f[p].data)) \o <<" bytes">>
        /\ isdir(f, p) => line = <<"DIR:  ">> \o name \o <<"/">>
        /\ Piece(line, 1) = "DIR:  " => isdir(f, p)
        /\ Piece(line, 1) = "FILE: " => isfile(f, p)

ListedEntries == {n \in Names : exists(last.pre, join(last.input["path"], n))}

\* list_directory was called on a directory it can list.
Listed ==
    /\ last.name = "list_directory"
    /\ isdir(last.pre, last.input["path"])

ListingIsExact ==
    /\ ~last.out.raised
    /\ last.out.fs = last.pre
    /\ IF ListedEntries = {}
       THEN last.out.result = <<"Directory is empty">>
       ELSE LET lines == SplitLines(last.out.result)
            IN  /\ Len(lines) = Cardinality(ListedEntries)
                /\ \E g \in [1..Len(lines) -> ListedEntries] :
                      /\ \A j, k \in 1..Len(lines) : g[j] = g[k] => j = k
                      /\ \A k \in 1..Len(lines) :
                            LineReports(last.pre, last.input["path"], g[k],
                                        lines[k])

\* C12: for every directory list_directory can list, the result has exactly
\* one line per immediate entry and no other line, or is "Directory is
\* empty" when there is no entry; a regular file's line is tagged FILE and
\* carries its size in bytes and its extension ("(no extension)" when it has
\* none); a subdirectory's line, and no other entry's line, is tagged DIR.
C12_ListingExact == Listed => ListingIsExact

\* C13: every pass through the model call makes exactly one request, and
\* requests are made nowhere else; when the request fails the run is over at
\* once: the failing step appends no turn and executes no tool, and no step
\* follows it, so there is no retry and no further model call.
C13_ModelFailureIsFatal ==
    [][/\ pc = "call" => (calls' = calls + 1 /\ pc' \in {"recv", "raised"})
       /\ pc # "call" => calls' = calls
       /\ exc' = "APIError"
             => /\ exc = ""
                /\ pc = "call"
                /\ pc' = "raised"
                /\ messages' = messages
                /\ fs' = fs
                /\ tool_results' = tool_results
                /\ last' = last]_vars

\* C13 witness: the second model call of a run failed, after the tools of
\* the first response had been executed.
C13_Witness ==
    /\ pc = "raised"
    /\ exc = "APIError"
    /\ calls = 2
    /\ Len(messages) = 3
    /\ Invoked

\* The tool_use blocks among the first n blocks of content, in order.
RequestsUpTo(content, n) ==
    Requests(SubSeq(content, 1, IF n < Len(content) THEN n ELSE Len(content)))

\* C14: the requests of a tool_use response are executed one at a time in
\* the order of the response: while the response is being handled the
\* results are those of the requests before the current block, in order and
\* once each; a request is executed on the filesystem its predecessor left;
\* and when the handling of the response is over, before the next model
\* call, every request of it has been executed exactly once.
C14_SequentialExactlyOnce ==
    /\ pc = "tools"
          => ResultsMatch(tool_results, RequestsUpTo(response.content, idx - 1))
    /\ (Invoked /\ prev.name # "(none)") => last.pre = prev.out.fs
    /\ Invoked => fs = last.out.fs
    /\ (response.stop_reason = "tool_use" /\ pc \in {"call", "raised", "finished"})
          => ResultsMatch(tool_results, Requests(response.content))

\* C15: the transcript only grows by appends: at every step the transcript
\* before the step is a prefix of the transcript after it; every model call
\* is sent the whole transcript of that moment; and when the handling of a
\* tool_use response is over the transcript is the one that was sent plus
\* exactly two turns, the assistant turn of the response and one user turn.
C15_AppendOnly ==
    [][/\ IsPrefix(messages, messages')
       /\ calls' = calls + 1 => sent' = messages
       /\ (pc = "tools" /\ pc' # "tools")
             => /\ Len(messages') = Len(sent) + 2
                /\ SubSeq(messages', 1, Len(sent)) = sent
                /\ messages'[Len(sent) + 1] =
                      [role |-> "assistant", content |-> response.content]
                /\ messages'[Len(sent) + 2].role = "user"]_vars

\* The line run_agent prints when a run starts.
IsRunHeader(line) == Piece(line, 1) = "User Request: "

\* C16: DRY_RUN is written only when a run starts, with the dry_run argument
\* of that run (the argument that also picks the system prompt), whatever
\* the run before left in it, and no later step of the run changes it or
\* the prompt; every handler call of the run is made under that value; and
\* no step of a run whose argument was dry_run changes the filesystem.
C16_FlagFollowsRun ==
    [][/\ runs' = runs + 1
             => /\ DRY_RUN' = (system_prompt' = PreviewPrompt)
                /\ system_prompt' \in {PreviewPrompt, InteractivePrompt}
                /\ fs' = fs
       /\ runs' # runs + 1
             => /\ DRY_RUN' = DRY_RUN
                /\ system_prompt' = system_prompt
                /\ runs' = runs
       /\ last' # last
             => /\ last'.dry = DRY_RUN
                /\ last'.dry = (system_prompt = PreviewPrompt)
       /\ system_prompt' = PreviewPrompt => fs' = fs]_vars

\* C16 witness: a dry run executed a move_file and left the filesystem
\* alone, and the normal run after it has moved the file.
C16_Witness ==
    /\ runs = 2
    /\ ~DRY_RUN
    /\ fs # fs0
    /\ Piece(last.out.result, 1) = "Moved "
    /\ prev.dry
    /\ prev.name = "move_file"
    /\ prev.out.fs = prev.pre
    /\ \E k \in 1..Len(printed) :
          IsRunHeader(printed[k]) /\ Piece(printed[k], 3) = " [DRY-RUN MODE]"

Mutating == {"move_file", "create_folder"}

\* What the handler of a mutating request does when dry-run is off.
Effect(f, block) ==
    IF block.name = "move_file"
    THEN move_file(f, FALSE, block.input["source"], block.input["destination"])
    ELSE create_folder(f, FALSE, block.input["path"])

\* C17: when dry-run is off nothing stands between a move_file or
\* create_folder request and its execution: whatever the transcript holds,
\* the first response included, the step taken at such a request is the
\* handler's own effect on the filesystem, recorded as the request's result.
C17_NoConfirmationGuard ==
    [][(/\ AtToolUse
        /\ ~DRY_RUN
        /\ response.content[idx].name \in Mutating
        /\ (IF response.content[idx].name = "move_file"
            THEN HasKeys(response.content[idx].input, {"source", "destination"})
            ELSE HasKeys(response.content[idx].input, {"path"})))
         => LET block == response.content[idx]
                out == Effect(fs, block)
            IN  /\ fs' = out.fs
                /\ tool_results' = Append(tool_results,
                                          ToolResult(block, out.result))
                /\ messages' = messages]_vars

\* C17 witness: dry-run is off, the filesystem has been changed, and the
\* transcript holds the initial user turn and one assistant turn, nothing
\* else.
C17_Witness ==
    /\ ~DRY_RUN
    /\ system_prompt = InteractivePrompt
    /\ fs # fs0
    /\ Len(messages) = 2
    /\ messages[1] = [role |-> "user", content |-> messages[1].content]
    /\ messages[1].content \in UserRequests
    /\ messages[2].role = "assistant"
    /\ calls = 1

\* C18: for every request of a response, whatever its name and whatever
\* fields its arguments hold, process_tool_call raises nothing and returns a
\* text: the step at the request leaves the loop running and appends one
\* result carrying the request's id.
C18_DispatchNeverRaises ==
    [][AtToolUse
         => /\ \A ord \in Orders :
                  ~process_tool_call(fs, DRY_RUN, response.content[idx].name,
                                     response.content[idx].input, ord).raised
            /\ pc' = "tools"
            /\ exc' = ""
            /\ Len(tool_results') = Len(tool_results) + 1
            /\ tool_results'[Len(tool_results')].tool_use_id =
                  response.content[idx].id]_vars

\* C19: when move_file, dry-run off, returns an error result, the filesystem
\* after the call is the filesystem before it; in particular the directory
\* of the destination has not been created.
C19_FailedMoveLeavesFilesystem ==
    (/\ last.name = "move_file"
     /\ HasKeys(last.input, {"source", "destination"})
     /\ ~last.dry
     /\ ~last.out.raised
     /\ IsErrorText(last.out.result))
    => /\ last.out.fs = last.pre
       /\ fs = last.pre

UnrecognizedStop == response.stop_reason \notin {"", "end_turn", "tool_use"}

\* C20: a response whose stop_reason is neither end_turn nor tool_use,
\* whatever blocks it holds, is passed over: no turn is appended, no tool is
\* executed, the filesystem stays as it is and the loop goes back to the
\* model call; the request made then carries the transcript the request
\* before it carried.
C20_UnrecognizedStopIsPassedOver ==
    [][/\ (pc = "recv" /\ UnrecognizedStop)
             => /\ pc' = "call"
                /\ messages' = messages
                /\ fs' = fs
                /\ tool_results' = tool_results
                /\ last' = last
                /\ messages' = sent
       /\ (pc = "call" /\ UnrecognizedStop /\ calls' = calls + 1)
             => sent' = sent]_vars

\* C20 witness: a max_tokens response holding a tool request was passed
\* over, and the next request (which failed) carried the same transcript.
C20_Witness ==
    /\ response.stop_reason = "max_tokens"
    /\ ToolUses(response.content) # {}
    /\ calls = 2
    /\ pc = "raised"
    /\ sent = messages
    /\ Len(messages) = 1
    /\ ~Invoked
    /\ fs = fs0

====
